---- MODULE Spec2Model ----
(***************************************************************************)
(* Model of m_ircv3_namedmodes (draft/named-modes prototype for InspIRCd): *)
(* the name translator, the PROP command handler, the MODE -> PROP event   *)
(* hook and the namebase (+Z) rewrite in OnPreMode.                         *)
(*                                                                         *)
(* std::string values are TLA+ strings; positions are 1-based and 0 stands *)
(* for std::string::npos.                                                  *)
(***************************************************************************)
EXTENDS Integers, Sequences, FiniteSets, TLC

(***************************************************************************)
(* Bounds                                                                  *)
(***************************************************************************)
\* longest internal name drawn over NameChars for the translator round trip
MaxNameLen == 3

\* most property tokens after the channel name in one PROP command
MaxTokens == 2

\* most individual changes in one outbound MODE event
MaxChanges == 2

\* most entries other hooks may have appended to a recipient's message list
MaxExtra == 1

\* most requests in a ChangeList handed to OnPreMode
MaxBatch == 2

\* most error lines of one WriteModes call that are followed
MaxLogged == 3

\* most mode letters in a MODENOTICE and most local users
MaxLetters == 2
MaxLocal == 2

(***************************************************************************)
(* std::string helpers                                                     *)
(***************************************************************************)
CharAt(s, i) == SubSeq(s, i, i)

\* s.find(c): position of the first occurrence of the character c, 0 if none
Find(s, c) ==
    IF \E i \in 1..Len(s) : CharAt(s, i) = c
    THEN CHOOSE i \in 1..Len(s) :
            /\ CharAt(s, i) = c
            /\ \A j \in 1..(i - 1) : CharAt(s, j) # c
    ELSE 0

\* s.rfind(p): position of the last occurrence of the string p, 0 if none
RFind(s, p) ==
    LET occ == { i \in 1..(Len(s) - Len(p) + 1) : SubSeq(s, i, i + Len(p) - 1) = p }
    IN  IF occ = {} THEN 0
        ELSE CHOOSE i \in occ : \A j \in occ : j <= i

\* std::replace(s.begin(), s.end(), from, to)
RECURSIVE Replace(_, _, _)
Replace(s, from, to) ==
    IF Len(s) = 0 THEN s
    ELSE (IF Head(s) = from THEN to ELSE Head(s)) \o Replace(Tail(s), from, to)

\* s.substr(pos) for a 1-based pos
SubstrFrom(s, pos) == SubSeq(s, pos, Len(s))

(***************************************************************************)
(* NameTranslator                                                          *)
(***************************************************************************)
MODETYPE_CHANNEL == "channel"
MODETYPE_USER == "user"
ModeTypes == {MODETYPE_CHANNEL, MODETYPE_USER}

DEFAULT_VENDOR_PREFIX == "inspired.chats.supply/"

\* {inspircd_name, ircv3_name} pairs
INSP2IRCV3_CHMODES == <<
    <<"ban", "ban">>,
    <<"inviteonly", "inviteonly">>,
    <<"key", "key">>,
    <<"limit", "limit">>,
    <<"moderated", "moderated">>,
    <<"noextmsg", "noextmsg">>,
    <<"op", "op">>,
    <<"private", "private">>,
    <<"secret", "secret">>,
    <<"topiclock", "topiclock">>,
    <<"voice", "voice">>,
    <<"banexception", "banex">>,
    <<"noctcp", "noctcp">>,
    <<"invex", "invex">>,
    <<"permanent", "permanent">>,
    <<"c_registered", "regonly">>,
    <<"sslonly", "secureonly">>,
    <<"admin", "admin">>,
    <<"founder", "owner">>,
    <<"halfop", "halfop">> >>

INSP2IRCV3_UMODES == <<
    <<"invisible", "invisible">>,
    <<"oper", "oper">>,
    <<"snomask", "snomask">>,
    <<"wallops", "wallops">>,
    <<"bot", "bot">>,
    <<"hidechans", "hidechans">>,
    <<"cloak", "cloak">> >>

TranslationTable(mt) ==
    IF mt = MODETYPE_CHANNEL THEN INSP2IRCV3_CHMODES ELSE INSP2IRCV3_UMODES

\* index of the first pair whose column col equals name, 0 if none
FirstMatch(table, col, name) ==
    IF \E i \in 1..Len(table) : table[i][col] = name
    THEN CHOOSE i \in 1..Len(table) :
            /\ table[i][col] = name
            /\ \A j \in 1..(i - 1) : table[j][col] # name
    ELSE 0

insp_to_ircv3(mt, name) ==
    LET table == TranslationTable(mt)
        hit == FirstMatch(table, 1, name)
    IN  IF hit # 0 THEN table[hit][2]
        ELSE DEFAULT_VENDOR_PREFIX \o Replace(name, "_", "-")

\* std::optional<const std::string>
Some(s) == [has |-> TRUE, value |-> s]
nullopt == [has |-> FALSE, value |-> ""]

\* seeded fault: the lookup compares the internal column instead of the wire one
ircv3_to_insp_WrongColumn(mt, name) ==
    LET table == TranslationTable(mt)
        hit == FirstMatch(table, 1, name)
    IN  IF hit # 0 THEN Some(table[hit][1])
        ELSE IF RFind(name, DEFAULT_VENDOR_PREFIX) = 1
             THEN Some(Replace(SubstrFrom(name, Len(DEFAULT_VENDOR_PREFIX) + 1), "-", "_"))
             ELSE nullopt

ircv3_to_insp(mt, name) ==
    LET table == TranslationTable(mt)
        hit == FirstMatch(table, 2, name)
    IN  IF hit # 0 THEN Some(table[hit][1])
        ELSE IF RFind(name, DEFAULT_VENDOR_PREFIX) = 1
             THEN Some(Replace(SubstrFrom(name, Len(DEFAULT_VENDOR_PREFIX) + 1), "-", "_"))
             ELSE nullopt

(***************************************************************************)
(* Mode registry (ServerInstance->Modes) as the module sees it              *)
(***************************************************************************)
PARAM_NONE == "PARAM_NONE"
PARAM_SETONLY == "PARAM_SETONLY"
PARAM_ALWAYS == "PARAM_ALWAYS"

NULL == [null |-> TRUE]

\* a registered mode: its name, letter and parameter requirement, the class
\* that implements it (what IsListModeBase, IsParameterMode and IsPrefixMode
\* answer), the ModeHandler::list flag, the prefix character of a prefix
\* mode and whether its parameter is secret
ModeHandler(name, letter, param, class, list, prefix, secret) ==
    [name |-> name, letter |-> letter, param |-> param, class |-> class,
     list |-> list, prefix |-> prefix, secret |-> secret]

\* ModeHandler(parent, "namebase", 'Z', PARAM_ALWAYS, MODETYPE_CHANNEL), list = true
dummyZ == ModeHandler("namebase", "Z", PARAM_ALWAYS, "ModeHandler", TRUE, "", FALSE)

\* ServerInstance->Modes.GetModes(MODETYPE_CHANNEL), in name order: the
\* channel modes of a stock server that the examples of the module use,
\* one module mode without a table entry, a module mode whose parameter is
\* secret (IsParameterSecret) and the module's own namebase.
ChannelModes == <<
    ModeHandler("ban", "b", PARAM_ALWAYS, "ListModeBase", TRUE, "", FALSE),
    ModeHandler("banexception", "e", PARAM_ALWAYS, "ListModeBase", TRUE, "", FALSE),
    ModeHandler("history", "H", PARAM_SETONLY, "ParamMode", FALSE, "", FALSE),
    ModeHandler("key", "k", PARAM_ALWAYS, "ParamMode", FALSE, "", TRUE),
    ModeHandler("limit", "l", PARAM_SETONLY, "ParamMode", FALSE, "", FALSE),
    dummyZ,
    ModeHandler("op", "o", PARAM_ALWAYS, "PrefixMode", FALSE, "@", FALSE),
    ModeHandler("passphrase", "P", PARAM_ALWAYS, "ParamMode", FALSE, "", TRUE),
    ModeHandler("topiclock", "t", PARAM_NONE, "SimpleChannelMode", FALSE, "", FALSE) >>

\* user modes are not reachable through PROP (HandleLocal rejects a target
\* that is not a channel)
UserModes == <<
    ModeHandler("invisible", "i", PARAM_NONE, "SimpleUserMode", FALSE, "", FALSE),
    ModeHandler("snomask", "s", PARAM_SETONLY, "ParamMode", FALSE, "", FALSE) >>

GetModes(mt) == IF mt = MODETYPE_CHANNEL THEN ChannelModes ELSE UserModes

\* ServerInstance->Modes.FindMode(name, mt)
FindMode(name, mt) ==
    LET modes == GetModes(mt)
    IN  IF \E i \in 1..Len(modes) : modes[i].name = name
        THEN modes[CHOOSE i \in 1..Len(modes) : modes[i].name = name]
        ELSE NULL

\* a handler whose NeedsParam answers true for removal only: the case
\* WriteModes tests for and logs
PARAM_UNSETONLY == "PARAM_UNSETONLY"

\* mh->NeedsParam(adding)
NeedsParam(mh, adding) ==
    CASE mh.param = PARAM_ALWAYS -> TRUE
      [] mh.param = PARAM_SETONLY -> adding
      [] mh.param = PARAM_UNSETONLY -> ~adding
      [] OTHER -> FALSE

\* mh->IsListModeBase(), mh->IsParameterMode()
IsListModeBase(mh) == mh.class = "ListModeBase"
IsParameterMode(mh) == mh.class = "ParamMode"

(***************************************************************************)
(* State                                                                   *)
(***************************************************************************)
VARIABLES
    \* translator round trip: the entity type and internal name under test,
    \* the wire name insp_to_ircv3 gave and what ircv3_to_insp made of it
    nmStage, nmType, nmName, nmWire, nmBack,
    \* PROP: the channel, the last command (its sender and parameters), the
    \* replies written to the sender, the ProcessSingle calls it made and
    \* the CmdResult it returned
    chan, src, parameters, replies, processed, cmdResult,
    \* ModeHook: the event being sent, the propmsgs buffer, the last
    \* recipient served with its message list before and after, whether
    \* the server is still running, and how many slots of the storage of
    \* propmsgs the builds so far have written
    ev, propmsgs, recipient, listBefore, listAfter, crashed, slotsUsed,
    \* OnPreMode: the target kind and ChangeList handed in, and the
    \* ChangeList as the hook left it once it has run
    preTarget, preIn, preOut, preDone,
    \* WriteModes: the type and the copy of the mode map it walks, the
    \* iterator i, the numerics written, the errors logged so far and where
    \* the call stands
    wmType, wmModes, wmI, wmOut, wmLogged, wmPc,
    \* MODENOTICE: the local users, the sender and parameters of the
    \* command, the notices written and the CmdResult returned
    mnList, mnSrc, mnParams, mnNotices, mnResult

nameVars == <<nmStage, nmType, nmName, nmWire, nmBack>>
propVars == <<chan, src, parameters, replies, processed, cmdResult>>
hookVars == <<ev, propmsgs, recipient, listBefore, listAfter, crashed, slotsUsed>>
preVars == <<preTarget, preIn, preOut, preDone>>
wmVars == <<wmType, wmModes, wmI, wmOut, wmLogged, wmPc>>
mnVars == <<mnList, mnSrc, mnParams, mnNotices, mnResult>>
vars == <<nameVars, propVars, hookVars, preVars, wmVars, mnVars>>

(***************************************************************************)
(* Translator round trip                                                   *)
(***************************************************************************)
\* characters internal mode names are drawn over
NameChars == {"a", "b", "_", "-"}

RECURSIVE StringsUpTo(_)
StringsUpTo(n) ==
    IF n = 0 THEN {""}
    ELSE LET shorter == StringsUpTo(n - 1)
         IN  shorter \cup { s \o c : s \in shorter, c \in NameChars }

Column(table, col) == { table[i][col] : i \in 1..Len(table) }

\* the names registered in the table of a type
TableNames(mt) == Column(TranslationTable(mt), 1)

InternalNames ==
    TableNames(MODETYPE_CHANNEL) \cup TableNames(MODETYPE_USER)
        \cup (StringsUpTo(MaxNameLen) \ {""})

NamesIdle ==
    /\ nmStage = "idle" /\ nmType = MODETYPE_CHANNEL /\ nmName = ""
    /\ nmWire = "" /\ nmBack = nullopt

ToWire ==
    /\ nmStage = "internal"
    /\ nmWire' = insp_to_ircv3(nmType, nmName)
    /\ nmStage' = "wire"
    /\ UNCHANGED <<nmType, nmName, nmBack, propVars, hookVars, preVars, wmVars, mnVars>>

ToInternal ==
    /\ nmStage = "wire"
    /\ nmBack' = ircv3_to_insp(nmType, nmWire)
    /\ nmStage' = "back"
    /\ UNCHANGED <<nmType, nmName, nmWire, propVars, hookVars, preVars, wmVars, mnVars>>

(***************************************************************************)
(* PROP command                                                            *)
(***************************************************************************)
RPL_ENDOFPROPLIST == 960
RPL_PROPLIST == 961
RPL_ENDOFLISTPROPLIST == 962
RPL_LISTPROPLIST == 963

\* fail.Send(user, this, code, description)
Fail(code, description) ==
    [type |-> "FAIL", command |-> "PROP", code |-> code, description |-> description]

\* user->WriteNumeric(numeric, params...)
Numeric(numeric, params) == [type |-> "NUMERIC", numeric |-> numeric, params |-> params]

\* Modes::Change
Change(mh, adding, param) == [mh |-> mh, adding |-> adding, param |-> param]

\* seeded fault: a mode that takes no value is accepted but never pushed
ChangeMode_DropFlag(mt, prop, plus, modes) ==
    LET separator_position == Find(prop, "=")
        ircv3_mode_name ==
            IF separator_position = 0 THEN prop
            ELSE SubSeq(prop, 1, separator_position - 1)
        insp_mode_name == ircv3_to_insp(mt, ircv3_mode_name)
        mh == IF insp_mode_name.has THEN FindMode(insp_mode_name.value, mt) ELSE NULL
        unknown == Fail("UNKNOWN_MODE", ircv3_mode_name \o " is not a valid mode name")
    IN  IF ~insp_mode_name.has \/ mh = NULL
        THEN [ok |-> FALSE, modes |-> modes, out |-> <<unknown>>]
        ELSE IF NeedsParam(mh, plus)
        THEN IF separator_position = 0
             THEN [ok |-> FALSE, modes |-> modes,
                   out |-> <<Fail("MISSING_VALUE", prop \o " requires a value")>>]
             ELSE [ok |-> TRUE,
                   modes |-> Append(modes,
                                Change(mh, plus, SubstrFrom(prop, separator_position + 1))),
                   out |-> <<>>]
        ELSE IF separator_position = 0
             THEN [ok |-> TRUE, modes |-> modes, out |-> <<>>]
             ELSE [ok |-> FALSE, modes |-> modes,
                   out |-> <<Fail("UNEXPECTED_VALUE", prop \o " does not take a value")>>]

\* seeded fault: the value is cut at the separator, not after it
ChangeMode_KeepSeparator(mt, prop, plus, modes) ==
    LET separator_position == Find(prop, "=")
        ircv3_mode_name ==
            IF separator_position = 0 THEN prop
            ELSE SubSeq(prop, 1, separator_position - 1)
        insp_mode_name == ircv3_to_insp(mt, ircv3_mode_name)
        mh == IF insp_mode_name.has THEN FindMode(insp_mode_name.value, mt) ELSE NULL
        unknown == Fail("UNKNOWN_MODE", ircv3_mode_name \o " is not a valid mode name")
    IN  IF ~insp_mode_name.has \/ mh = NULL
        THEN [ok |-> FALSE, modes |-> modes, out |-> <<unknown>>]
        ELSE IF NeedsParam(mh, plus)
        THEN IF separator_position = 0
             THEN [ok |-> FALSE, modes |-> modes,
                   out |-> <<Fail("MISSING_VALUE", prop \o " requires a value")>>]
             ELSE [ok |-> TRUE,
                   modes |-> Append(modes,
                                Change(mh, plus, SubstrFrom(prop, separator_position))),
                   out |-> <<>>]
        ELSE IF separator_position = 0
             THEN [ok |-> TRUE, modes |-> Append(modes, Change(mh, plus, "")), out |-> <<>>]
             ELSE [ok |-> FALSE, modes |-> modes,
                   out |-> <<Fail("UNEXPECTED_VALUE", prop \o " does not take a value")>>]

ChangeMode(mt, prop, plus, modes) ==
    LET separator_position == Find(prop, "=")
        ircv3_mode_name ==
            IF separator_position = 0 THEN prop
            ELSE SubSeq(prop, 1, separator_position - 1)
        insp_mode_name == ircv3_to_insp(mt, ircv3_mode_name)
        mh == IF insp_mode_name.has THEN FindMode(insp_mode_name.value, mt) ELSE NULL
        unknown == Fail("UNKNOWN_MODE", ircv3_mode_name \o " is not a valid mode name")
    IN  IF ~insp_mode_name.has
        THEN [ok |-> FALSE, modes |-> modes, out |-> <<unknown>>]
        ELSE IF mh = NULL
        THEN [ok |-> FALSE, modes |-> modes, out |-> <<unknown>>]
        ELSE IF NeedsParam(mh, plus)
        THEN IF separator_position = 0
             THEN [ok |-> FALSE, modes |-> modes,
                   out |-> <<Fail("MISSING_VALUE", prop \o " requires a value")>>]
             ELSE [ok |-> TRUE,
                   modes |-> Append(modes,
                                Change(mh, plus, SubstrFrom(prop, separator_position + 1))),
                   out |-> <<>>]
        ELSE IF separator_position = 0
             THEN [ok |-> TRUE, modes |-> Append(modes, Change(mh, plus, "")), out |-> <<>>]
             ELSE [ok |-> FALSE, modes |-> modes,
                   out |-> <<Fail("UNEXPECTED_VALUE", prop \o " does not take a value")>>]

\* listmode->GetList(channel): the entries stored on the channel (none: NULL)
GetList(mh, channel) == channel.lists[mh.name]

\* seeded fault: the name is resolved before the '=' test
ListMode_ResolveFirst(mt, channel, ircv3_mode_name) ==
    LET insp_mode_name == ircv3_to_insp(mt, ircv3_mode_name)
        mh == IF insp_mode_name.has
              THEN FindMode(insp_mode_name.value, MODETYPE_CHANNEL) ELSE NULL
        unknown == Fail("UNKNOWN_MODE", ircv3_mode_name \o " is not a valid mode name")
        modelist == GetList(mh, channel)
    IN  IF ~insp_mode_name.has \/ mh = NULL
        THEN [ok |-> FALSE, out |-> <<unknown>>]
        ELSE IF Find(ircv3_mode_name, "=") # 0
        THEN [ok |-> FALSE,
              out |-> <<Fail("INVALID_SYNTAX", "PROP list request should not have a value")>>]
        ELSE IF ~IsListModeBase(mh)
        THEN [ok |-> FALSE,
              out |-> <<Fail("NOT_LISTMODE", ircv3_mode_name \o " is not a list mode")>>]
        ELSE [ok |-> TRUE,
              out |-> [n \in 1..Len(modelist) |->
                          Numeric(RPL_LISTPROPLIST,
                                  <<channel.name, ircv3_mode_name, modelist[n].mask,
                                    modelist[n].setter, modelist[n].time>>)]
                      \o <<Numeric(RPL_ENDOFLISTPROPLIST,
                                   <<channel.name, ircv3_mode_name, "End of mode list">>)>>]

\* seeded fault: the end-of-list numeric is written only after entries
ListMode_EndOnlyIfEntries(mt, channel, ircv3_mode_name) ==
    LET insp_mode_name == ircv3_to_insp(mt, ircv3_mode_name)
        mh == IF insp_mode_name.has
              THEN FindMode(insp_mode_name.value, MODETYPE_CHANNEL) ELSE NULL
        unknown == Fail("UNKNOWN_MODE", ircv3_mode_name \o " is not a valid mode name")
        modelist == GetList(mh, channel)
    IN  IF Find(ircv3_mode_name, "=") # 0
        THEN [ok |-> FALSE,
              out |-> <<Fail("INVALID_SYNTAX", "PROP list request should not have a value")>>]
        ELSE IF ~insp_mode_name.has \/ mh = NULL
        THEN [ok |-> FALSE, out |-> <<unknown>>]
        ELSE IF ~IsListModeBase(mh)
        THEN [ok |-> FALSE,
              out |-> <<Fail("NOT_LISTMODE", ircv3_mode_name \o " is not a list mode")>>]
        ELSE [ok |-> TRUE,
              out |-> [n \in 1..Len(modelist) |->
                          Numeric(RPL_LISTPROPLIST,
                                  <<channel.name, ircv3_mode_name, modelist[n].mask,
                                    modelist[n].setter, modelist[n].time>>)]
                      \o (IF modelist = <<>> THEN <<>>
                          ELSE <<Numeric(RPL_ENDOFLISTPROPLIST,
                                         <<channel.name, ircv3_mode_name,
                                           "End of mode list">>)>>)]

ListMode(mt, channel, ircv3_mode_name) ==
    LET insp_mode_name == ircv3_to_insp(mt, ircv3_mode_name)
        mh == IF insp_mode_name.has
              THEN FindMode(insp_mode_name.value, MODETYPE_CHANNEL) ELSE NULL
        unknown == Fail("UNKNOWN_MODE", ircv3_mode_name \o " is not a valid mode name")
        modelist == GetList(mh, channel)
    IN  IF Find(ircv3_mode_name, "=") # 0
        THEN [ok |-> FALSE,
              out |-> <<Fail("INVALID_SYNTAX", "PROP list request should not have a value")>>]
        ELSE IF ~insp_mode_name.has
        THEN [ok |-> FALSE, out |-> <<unknown>>]
        ELSE IF mh = NULL
        THEN [ok |-> FALSE, out |-> <<unknown>>]
        ELSE IF ~IsListModeBase(mh)
        THEN [ok |-> FALSE,
              out |-> <<Fail("NOT_LISTMODE", ircv3_mode_name \o " is not a list mode")>>]
        ELSE [ok |-> TRUE,
              out |-> [n \in 1..Len(modelist) |->
                          Numeric(RPL_LISTPROPLIST,
                                  <<channel.name, ircv3_mode_name, modelist[n].mask,
                                    modelist[n].setter, modelist[n].time>>)]
                      \o <<Numeric(RPL_ENDOFLISTPROPLIST,
                                   <<channel.name, ircv3_mode_name, "End of mode list">>)>>]

\* the parameters DisplayModeList adds for the modes from position n on
RECURSIVE DisplayModeParams(_, _, _)
DisplayModeParams(user, channel, n) ==
    IF n > Len(ChannelModes) THEN <<>>
    ELSE LET mh == ChannelModes[n]
             rest == DisplayModeParams(user, channel, n + 1)
         IN  IF mh.name \notin channel.set THEN rest
             ELSE <<insp_to_ircv3(MODETYPE_CHANNEL, mh.name)>>
                  \o (IF IsParameterMode(mh)
                      THEN IF mh.secret /\ user.nick \notin channel.members /\ ~user.auspex
                           THEN <<"<" \o mh.name \o ">">>
                           ELSE <<channel.param[mh.name]>>
                      ELSE <<>>)
                  \o rest

\* Numeric::ParamBuilder<1>: Flush() sends nothing when nothing was added.
\* Splitting over several lines at the line length limit is not modelled.
DisplayModeList(user, channel) ==
    LET added == DisplayModeParams(user, channel, 1)
    IN  (IF added = <<>> THEN <<>>
         ELSE <<Numeric(RPL_PROPLIST, <<channel.name>> \o added)>>)
        \o <<Numeric(RPL_ENDOFPROPLIST, <<channel.name, "End of mode list">>)>>

\* seeded fault: the loop goes on after a failing token
RECURSIVE PropLoop_NoStop(_, _, _, _, _)
PropLoop_NoStop(mt, channel, params, i, st) ==
    IF ~(i <= Len(params)) THEN st
    ELSE LET prop == params[i]
         IN  IF prop = "" THEN PropLoop_NoStop(mt, channel, params, i + 1, st)
             ELSE IF Head(prop) = "+" \/ Head(prop) = "-"
             THEN LET r == ChangeMode(mt, SubstrFrom(prop, 2), Head(prop) = "+", st.modes)
                  IN  PropLoop_NoStop(mt, channel, params, i + 1,
                               [modes |-> r.modes, success |-> st.success /\ r.ok,
                                out |-> st.out \o r.out])
             ELSE LET r == ListMode(mt, channel, prop)
                  IN  PropLoop_NoStop(mt, channel, params, i + 1,
                               [modes |-> st.modes, success |-> st.success /\ r.ok,
                                out |-> st.out \o r.out])

\* the while loop of HandleLocal from parameters[i] on (parameters[1] is the
\* channel name); st holds modes, success and the replies written so far
RECURSIVE PropLoop(_, _, _, _, _)
PropLoop(mt, channel, params, i, st) ==
    IF ~(i <= Len(params) /\ st.success) THEN st
    ELSE LET prop == params[i]
         IN  IF prop = "" THEN PropLoop(mt, channel, params, i + 1, st)
             ELSE IF Head(prop) = "+" \/ Head(prop) = "-"
             THEN LET r == ChangeMode(mt, SubstrFrom(prop, 2), Head(prop) = "+", st.modes)
                  IN  PropLoop(mt, channel, params, i + 1,
                               [modes |-> r.modes, success |-> r.ok,
                                out |-> st.out \o r.out])
             ELSE LET r == ListMode(mt, channel, prop)
                  IN  PropLoop(mt, channel, params, i + 1,
                               [modes |-> st.modes, success |-> r.ok,
                                out |-> st.out \o r.out])

\* ServerInstance->Modes.ProcessSingle(src, chan, NULL, modes, MODE_CHECKACCESS),
\* with what the mode-application subsystem reported back
ProcessSingle(user, channel, modes, flags, report) ==
    [user |-> user, chan |-> channel.name, modes |-> modes, flags |-> flags,
     report |-> report]

\* seeded fault: the accumulated ChangeList is submitted even after a failure
HandleLocalResult_SubmitAnyway(user, params, channel, report) ==
    IF params[1] # channel.name
    THEN [replies |-> <<Numeric("ERR_NOSUCHCHANNEL", <<params[1], "No such channel">>)>>,
          processed |-> <<>>, result |-> "FAILURE"]
    ELSE IF Len(params) = 1
    THEN [replies |-> DisplayModeList(user, channel), processed |-> <<>>,
          result |-> "SUCCESS"]
    ELSE LET st == PropLoop(MODETYPE_CHANNEL, channel, params, 2,
                            [modes |-> <<>>, success |-> TRUE, out |-> <<>>])
             call == ProcessSingle(user, channel, st.modes, "MODE_CHECKACCESS", report)
         IN  IF st.success
             THEN [replies |-> st.out, processed |-> <<call>>, result |-> "SUCCESS"]
             ELSE [replies |-> Append(st.out, Fail("UNKNOWN", "unknown error")),
                   processed |-> <<call>>, result |-> "FAILURE"]

\* the outcome of CommandProp::HandleLocal: replies written, ProcessSingle
\* calls made and the CmdResult
HandleLocalResult(user, params, channel, report) ==
    IF params[1] # channel.name
    THEN [replies |-> <<Numeric("ERR_NOSUCHCHANNEL", <<params[1], "No such channel">>)>>,
          processed |-> <<>>, result |-> "FAILURE"]
    ELSE IF Len(params) = 1
    THEN [replies |-> DisplayModeList(user, channel), processed |-> <<>>,
          result |-> "SUCCESS"]
    ELSE LET st == PropLoop(MODETYPE_CHANNEL, channel, params, 2,
                            [modes |-> <<>>, success |-> TRUE, out |-> <<>>])
         IN  IF st.success
             THEN [replies |-> st.out,
                   processed |-> <<ProcessSingle(user, channel, st.modes,
                                                 "MODE_CHECKACCESS", report)>>,
                   result |-> "SUCCESS"]
             ELSE [replies |-> Append(st.out, Fail("UNKNOWN", "unknown error")),
                   processed |-> <<>>, result |-> "FAILURE"]

(***************************************************************************)
(* PROP: inputs                                                            *)
(***************************************************************************)
ListEntry(mask, setter, time) == [mask |-> mask, setter |-> setter, time |-> time]

Channel(set, param, lists) ==
    [name |-> "#chan", members |-> {"alice"}, set |-> set, param |-> param,
     lists |-> lists]

EmptyChannel ==
    Channel({}, [history |-> "", key |-> "", limit |-> "", passphrase |-> ""],
            [ban |-> <<>>, banexception |-> <<>>])

BusyChannel ==
    Channel({"key", "history", "passphrase", "topiclock"},
            [history |-> "20:1h", key |-> "secret", limit |-> "", passphrase |-> "hunter2"],
            [ban |-> <<ListEntry("*!*@host", "setter", "1700000000"),
                       ListEntry("a!*@*", "alice", "1700000001")>>,
             banexception |-> <<ListEntry("b!*@*", "alice", "1700000002")>>])

ChannelStates == {EmptyChannel, BusyChannel}

LocalUsers == {
    [nick |-> "alice", auspex |-> FALSE],
    [nick |-> "bob", auspex |-> FALSE],
    [nick |-> "root", auspex |-> TRUE] }

NoUser == [nick |-> "", auspex |-> FALSE]

TargetNames == {"#chan", "#none"}

PropTokens == {
    "", "+topiclock", "-topiclock", "+topiclock=x", "+key=s", "+key", "+limit",
    "-limit", "+banex=m", "-ban=m", "+inspired.chats.supply/history=9",
    "+nosuch", "ban", "banex", "ban=x", "key", "nosuch",
    "+key=a=b", "+key=", "+nosuch=x", "nosuch=x", "inspired.chats.supply/namebase" }

RECURSIVE TokenLists(_)
TokenLists(n) ==
    IF n = 0 THEN {<<>>}
    ELSE LET shorter == TokenLists(n - 1)
         IN  shorter \cup { Append(l, t) : l \in shorter, t \in PropTokens }

PropCommands == { <<t>> \o l : t \in TargetNames, l \in TokenLists(MaxTokens) }

PropIdle ==
    /\ chan = EmptyChannel
    /\ src = NoUser /\ parameters = <<>> /\ replies = <<>> /\ processed = <<>>
    /\ cmdResult = "NONE"

\* the handler keeps nothing between commands, so one command is followed
\* from the state in which it arrives
HandleLocal ==
    /\ cmdResult = "PENDING"
    /\ \E report \in BOOLEAN :
        LET r == HandleLocalResult(src, parameters, chan, report)
        IN  /\ replies' = r.replies
            /\ processed' = r.processed
            /\ cmdResult' = r.result
    /\ UNCHANGED <<chan, src, parameters, nameVars, hookVars, preVars, wmVars, mnVars>>

(***************************************************************************)
(* ModeHook: MODE events rewritten as PROP messages                        *)
(***************************************************************************)
\* ClientProtocol::Messages::Mode number n of an event
ModeMessage(source, target, n) ==
    [command |-> "MODE", source |-> source.str, sourceuser |-> source.user,
     params |-> <<target>>, part |-> n]

\* ClientProtocol::Events::Mode: its legacy messages and its change list
ModeEvent(source, target, nmsgs, changes) ==
    [messages |-> [n \in 1..nmsgs |-> ModeMessage(source, target, n)],
     changes |-> changes]

\* new ClientProtocol::Message("PROP", *source, source_user), or
\* ("PROP", source_user) when source is NULL, with its two parameters
PropMessage(first_modemsg, change) ==
    [command |-> "PROP", source |-> first_modemsg.source,
     sourceuser |-> first_modemsg.sourceuser,
     params |-> <<first_modemsg.params[1],
                  (IF change.adding THEN "+" ELSE "-") \o change.mh.name
                      \o (IF change.param = "" THEN "" ELSE "=" \o change.param)>>]

\* seeded fault: each PROP is put in front of the ones built before it
RECURSIVE BuildPropMsgs_Reversed(_, _, _)
BuildPropMsgs_Reversed(event, n, built) ==
    IF n > Len(event.changes) THEN built
    ELSE IF event.changes[n].mh = NULL THEN built
    ELSE BuildPropMsgs_Reversed(event, n + 1,
            <<PropMessage(event.messages[1], event.changes[n])>> \o built)

\* the loop of OnEventInit over the change list from position n on: it
\* returns at the first change without a handler, keeping what was pushed
RECURSIVE BuildPropMsgs(_, _, _)
BuildPropMsgs(event, n, built) ==
    IF n > Len(event.changes) THEN built
    ELSE IF event.changes[n].mh = NULL THEN built
    ELSE BuildPropMsgs(event, n + 1,
                       Append(built, PropMessage(event.messages[1], event.changes[n])))

\* propmsgs after OnEventInit(ev)
EventInitResult(event) ==
    IF event.messages = <<>> THEN <<>>
    ELSE BuildPropMsgs(event, 1, <<>>)

\* what an out-of-range read of propmsgs yields when it does not fault
Garbage == [command |-> "?", source |-> nullopt, sourceuser |-> "?", params |-> <<>>]

\* seeded fault: the list is rewritten without asking for the capability
SpliceProps_IgnoreCap(capEnabled, props, nb_modemsgs, messagelist) ==
    SubSeq(props, 1, nb_modemsgs)
        \o SubSeq(props, nb_modemsgs + 1, Len(props))
        \o SubSeq(messagelist, nb_modemsgs + 1, Len(messagelist))

\* messagelist after OnPreEventSend when every range it takes is inside
\* propmsgs: std::copy over the first nb_modemsgs entries, then insert of
\* the remaining PROPs at position nb_modemsgs
SpliceProps(capEnabled, props, nb_modemsgs, messagelist) ==
    IF capEnabled
    THEN SubSeq(props, 1, nb_modemsgs)
         \o SubSeq(props, nb_modemsgs + 1, Len(props))
         \o SubSeq(messagelist, nb_modemsgs + 1, Len(messagelist))
    ELSE messagelist

\* propmsgs.begin() + nb_modemsgs lies past propmsgs.end(): the copy reads
\* past the buffer and the insert takes a reversed range
RangePastEnd(capEnabled, props, nb_modemsgs) == capEnabled /\ nb_modemsgs > Len(props)

EventChanges == {
    Change(FindMode("ban", MODETYPE_CHANNEL), TRUE, "*!*@host"),
    Change(FindMode("banexception", MODETYPE_CHANNEL), FALSE, "m"),
    Change(FindMode("history", MODETYPE_CHANNEL), FALSE, ""),
    Change(NULL, TRUE, "") }

RECURSIVE ChangeLists(_, _)
ChangeLists(pool, n) ==
    IF n = 0 THEN {<<>>}
    ELSE LET shorter == ChangeLists(pool, n - 1)
         IN  shorter \cup { Append(l, c) : l \in shorter, c \in pool }

EventSources == { [str |-> Some("alice!a@host"), user |-> "alice"],
                  [str |-> nullopt, user |-> "irc.example.net"] }

\* every legacy message of an event carries at least one of its changes
ModeEvents ==
    UNION { { ModeEvent(s, "#chan", n, l) : s \in EventSources, n \in 0..Len(l) } :
            l \in ChangeLists(EventChanges, MaxChanges) }

\* a message another hook left in the recipient's list behind the MODEs
OtherMessage(n) ==
    [command |-> "NOTICE", source |-> nullopt, sourceuser |-> "irc.example.net",
     params |-> <<"#chan">>, part |-> n]

ExtraLists == { [n \in 1..len |-> OtherMessage(n)] : len \in 0..MaxExtra }

Recipients == { [nick |-> "carol", cap |-> TRUE], [nick |-> "dave", cap |-> FALSE] }

NoEvent == [messages |-> <<>>, changes |-> <<>>, none |-> TRUE]
NoRecipient == [nick |-> "", cap |-> FALSE]

HookIdle ==
    /\ ev = NoEvent /\ propmsgs = <<>> /\ recipient = NoRecipient
    /\ listBefore = <<>> /\ listAfter = <<>> /\ crashed = FALSE
    /\ slotsUsed = 0

\* the slots of the storage of propmsgs written so far, after a build that
\* pushed built: clear() sets the size to zero and keeps the storage, and
\* push_back writes the slots from the first on
SlotsAfter(used, built) == IF Len(built) > used THEN Len(built) ELSE used

\* PROP messages an earlier event can have left in a slot behind the end
\* of propmsgs: clear() does not erase the pointer and nothing deletes the
\* message, so the slot still holds a message an earlier build pushed
\* (followed here: the message of an earlier ban, from either source)
StaleMessages ==
    { PropMessage(ModeMessage(s, "#chan", 1),
                  Change(FindMode("ban", MODETYPE_CHANNEL), TRUE, "*!*@host")) :
        s \in EventSources }

\* what reads of propmsgs at the positions size+1 .. nb_modemsgs can yield
\* when they do not fault: a stale message for a slot that was written
\* before, garbage for one that never was
PastEndReads(props, used, nb_modemsgs) ==
    { read \in [1..(nb_modemsgs - Len(props)) -> StaleMessages \cup {Garbage}] :
        \A n \in DOMAIN read :
            IF Len(props) + n <= used THEN read[n] \in StaleMessages
            ELSE read[n] = Garbage }

OnEventInit ==
    /\ ~crashed
    /\ \E event \in ModeEvents :
        /\ ev' = event
        /\ propmsgs' = EventInitResult(event)
        /\ slotsUsed' = SlotsAfter(slotsUsed, EventInitResult(event))
    /\ recipient' = NoRecipient
    /\ listBefore' = <<>>
    /\ listAfter' = <<>>
    /\ UNCHANGED <<crashed, nameVars, propVars, preVars, wmVars, mnVars>>

OnPreEventSend ==
    /\ ~crashed
    /\ ev # NoEvent
    /\ \E user \in Recipients, extra \in ExtraLists :
        LET messagelist == ev.messages \o extra
            nb_modemsgs == Len(ev.messages)
        IN  /\ recipient' = user
            /\ listBefore' = messagelist
            /\ IF RangePastEnd(user.cap, propmsgs, nb_modemsgs)
               THEN \/ /\ crashed' = TRUE
                       /\ listAfter' = <<>>
                    \/ /\ crashed' = FALSE
                       /\ \E read \in PastEndReads(propmsgs, slotsUsed, nb_modemsgs) :
                            listAfter' = propmsgs \o read \o extra
               ELSE /\ crashed' = FALSE
                    /\ listAfter' = SpliceProps(user.cap, propmsgs, nb_modemsgs, messagelist)
    /\ UNCHANGED <<ev, propmsgs, slotsUsed, nameVars, propVars, preVars, wmVars, mnVars>>

(***************************************************************************)
(* OnPreMode: namebase (+Z) requests rewritten before modes are applied    *)
(***************************************************************************)
\* what the loop body leaves in place of a request on dummyZ: nothing when
\* it erases the request, else the request on the mode its parameter names
RewriteNamebase(curr) ==
    LET eq == Find(curr.param, "=")
        value == IF eq # 0 THEN SubstrFrom(curr.param, eq + 1) ELSE ""
        name == IF eq # 0 THEN SubSeq(curr.param, 1, eq - 1) ELSE curr.param
        mh == FindMode(name, MODETYPE_CHANNEL)
    IN  IF mh = NULL THEN <<>>
        ELSE IF NeedsParam(mh, curr.adding)
        THEN IF value = "" THEN <<>>
             ELSE <<Change(mh, curr.adding, value)>>
        ELSE <<Change(mh, curr.adding, "")>>

\* the loop of OnPreMode over the list from position n on
RECURSIVE RewriteList(_, _)
RewriteList(list, n) ==
    IF n > Len(list) THEN <<>>
    ELSE (IF list[n].mh = dummyZ THEN RewriteNamebase(list[n]) ELSE <<list[n]>>)
         \o RewriteList(list, n + 1)

\* seeded fault: the list is rewritten for a user target too
OnPreModeResult_IgnoreTarget(channel, list) ==
    RewriteList(list, 1)

\* modes.getlist() after OnPreMode(source, dest, channel, modes)
OnPreModeResult(channel, list) ==
    IF channel = NULL THEN list
    ELSE RewriteList(list, 1)

NamebasePayloads == {
    "topiclock", "topiclock=x", "key=s", "key", "key=", "limit=5", "limit",
    "nosuch=1", "namebase=x", "namebase", "" }

PreModeChanges ==
    { Change(dummyZ, adding, payload) : adding \in BOOLEAN, payload \in NamebasePayloads }
        \cup { Change(FindMode("key", MODETYPE_CHANNEL), TRUE, "s"),
               Change(FindMode("topiclock", MODETYPE_CHANNEL), FALSE, ""),
               Change(FindMode("ban", MODETYPE_CHANNEL), TRUE, "a=b") }

\* the channel argument: a channel, or NULL for a user target
PreModeTargets == {[name |-> "#chan"], NULL}

NoTarget == [name |-> ""]

PreModeIdle == preTarget = NoTarget /\ preIn = <<>> /\ preOut = <<>> /\ preDone = FALSE

\* the hook keeps nothing between calls, so one call is followed from the
\* ChangeList it is handed
OnPreMode ==
    /\ ~preDone
    /\ preTarget # NoTarget
    /\ preOut' = OnPreModeResult(preTarget, preIn)
    /\ preDone' = TRUE
    /\ UNCHANGED <<preTarget, preIn, nameVars, propVars, hookVars, wmVars, mnVars>>

(***************************************************************************)
(* WriteModes: the mode catalogue sent to a connecting user               *)
(***************************************************************************)
RPL_CHMODELIST == 964
RPL_UMODELIST == 965

\* the type WriteModes gives a mode; 0 stands for the branch that assigns
\* none (a parameter needed only when unsetting)
ModeTypeDigit(mh) ==
    LET needs_param_when_setting == NeedsParam(mh, TRUE)
        needs_param_when_unsetting == NeedsParam(mh, FALSE)
    IN  IF mh.class = "PrefixMode" /\ mh.prefix # "" THEN 5
        ELSE IF mh.list THEN 1
        ELSE IF needs_param_when_setting /\ needs_param_when_unsetting THEN 2
        ELSE IF needs_param_when_setting THEN 3
        ELSE IF needs_param_when_unsetting THEN 0
        ELSE 4

\* the two branches of the loop body that log an error and continue
WriteModesSkips(mt, mh) ==
    \/ ModeTypeDigit(mh) = 0
    \/ mt = MODETYPE_USER /\ ModeTypeDigit(mh) \in {1, 2, 5}

\* InspIRCd::Format("%d:%s=%c", type, insp_to_ircv3(mt, mh->name), mh->GetModeChar())
ModeString(mt, mh) ==
    ToString(ModeTypeDigit(mh)) \o ":" \o insp_to_ircv3(mt, mh.name) \o "=" \o mh.letter

\* OnUserConnect: RPL_CHMODELIST with the channel modes, RPL_UMODELIST with
\* the user modes
WriteModesNumeric(mt) == IF mt = MODETYPE_CHANNEL THEN RPL_CHMODELIST ELSE RPL_UMODELIST

\* modes a module may add to the stock ones: a channel mode that needs its
\* parameter only when unsetting, a user mode with a parameter both ways
\* and a user list mode
ModuleModes(mt) ==
    IF mt = MODETYPE_CHANNEL
    THEN <<ModeHandler("unlock", "U", PARAM_UNSETONLY, "ModeHandler", FALSE, "", FALSE)>>
    ELSE <<ModeHandler("u_tag", "T", PARAM_ALWAYS, "ParamMode", FALSE, "", FALSE),
           ModeHandler("u_watch", "W", PARAM_ALWAYS, "ListModeBase", TRUE, "", FALSE)>>

\* the entries of seq at the positions in keep, in order
RECURSIVE Restrict(_, _, _)
Restrict(seq, keep, n) ==
    IF n > Len(seq) THEN <<>>
    ELSE (IF n \in keep THEN <<seq[n]>> ELSE <<>>) \o Restrict(seq, keep, n + 1)

\* ServerInstance->Modes.GetModes(mt) on servers with some of the modes loaded
ModeMaps(mt) ==
    LET all == GetModes(mt) \o ModuleModes(mt)
    IN  { Restrict(all, keep, 1) : keep \in SUBSET (1..Len(all)) }

WriteModesIdle ==
    /\ wmPc = "idle" /\ wmType = MODETYPE_CHANNEL /\ wmModes = <<>>
    /\ wmI = 1 /\ wmOut = <<>> /\ wmLogged = 0

\* the loop condition i != modes.end() fails on entry
WriteModesEnd ==
    /\ wmPc = "loop"
    /\ wmI > Len(wmModes)
    /\ wmPc' = "done"
    /\ UNCHANGED <<wmType, wmModes, wmI, wmOut, wmLogged,
                   nameVars, propVars, hookVars, preVars, mnVars>>

\* one trip through the loop body that ends in a continue
WriteModesSkip ==
    /\ wmPc = "loop"
    /\ wmI <= Len(wmModes)
    /\ WriteModesSkips(wmType, wmModes[wmI])
    /\ wmLogged < MaxLogged
    /\ wmLogged' = wmLogged + 1
    /\ UNCHANGED <<wmType, wmModes, wmI, wmOut, wmPc,
                   nameVars, propVars, hookVars, preVars, mnVars>>

\* one trip through the loop body that writes a numeric
WriteModesEmit ==
    /\ wmPc = "loop"
    /\ wmI <= Len(wmModes)
    /\ ~WriteModesSkips(wmType, wmModes[wmI])
    /\ wmI' = wmI + 1
    /\ IF wmI + 1 <= Len(wmModes)
       THEN /\ wmOut' = Append(wmOut, Numeric(WriteModesNumeric(wmType),
                                              <<"*", ModeString(wmType, wmModes[wmI])>>))
            /\ wmPc' = "loop"
       ELSE /\ wmOut' = Append(wmOut, Numeric(WriteModesNumeric(wmType),
                                              <<ModeString(wmType, wmModes[wmI])>>))
            /\ wmPc' = "done"
    /\ UNCHANGED <<wmType, wmModes, wmLogged, nameVars, propVars, hookVars, preVars, mnVars>>

(***************************************************************************)
(* MODENOTICE (m_modenotice)                                               *)
(***************************************************************************)
\* user->IsModeSet(letter): the letter names a registered user mode and the
\* user has it set
IsModeSet(user, letter) ==
    /\ \E i \in 1..Len(UserModes) : UserModes[i].letter = letter
    /\ letter \in user.modes

\* seeded fault: one letter of the list that is set is enough
HasAllModes_AnyLetter(user, letters) ==
    \E n \in 1..Len(letters) : IsModeSet(user, CharAt(letters, n))

\* the inner loop of Handle: no letter of parameters[0] is missing
HasAllModes(user, letters) ==
    \A n \in 1..Len(letters) : IsModeSet(user, CharAt(letters, n))

\* user->WriteNotice(msg)
Notice(user, msg) == [to |-> user.nick, text |-> msg]

\* the loop of Handle over the local users from position i on
RECURSIVE NoticeLoop(_, _, _, _)
NoticeLoop(list, letters, msg, i) ==
    IF i > Len(list) THEN <<>>
    ELSE (IF HasAllModes(list[i], letters) THEN <<Notice(list[i], msg)>> ELSE <<>>)
         \o NoticeLoop(list, letters, msg, i + 1)

\* the notices written by CommandModeNotice::Handle and what it returns
ModeNoticeResult(list, source, params) ==
    LET msg == "*** From " \o source \o ": " \o params[2]
    IN  [notices |-> NoticeLoop(list, params[1], msg, 1), result |-> "SUCCESS"]

\* letters of the registered user modes, and one that names no mode
NoticeLetters == { UserModes[i].letter : i \in 1..Len(UserModes) } \cup {"x"}

RECURSIVE LetterStrings(_)
LetterStrings(n) ==
    IF n = 0 THEN {""}
    ELSE LET shorter == LetterStrings(n - 1)
         IN  shorter \cup { s \o c : s \in shorter, c \in NoticeLetters }

LocalNicks == <<"alice", "bob", "carol">>

\* ServerInstance->Users.GetLocalUsers(): the first len of the nicks, each
\* with some of the registered user modes set
LocalLists ==
    UNION { [1..len -> SUBSET { UserModes[i].letter : i \in 1..Len(UserModes) }] :
            len \in 0..MaxLocal }

LocalList(modesets) ==
    [n \in 1..Len(modesets) |-> [nick |-> LocalNicks[n], modes |-> modesets[n]]]

ModeNoticeIdle ==
    /\ mnList = <<>> /\ mnSrc = "" /\ mnParams = <<>> /\ mnNotices = <<>>
    /\ mnResult = "NONE"

\* the handler keeps nothing between commands, so one command is followed
\* from the state in which it arrives
ModeNoticeHandle ==
    /\ mnResult = "PENDING"
    /\ LET r == ModeNoticeResult(mnList, mnSrc, mnParams)
       IN  /\ mnNotices' = r.notices
           /\ mnResult' = r.result
    /\ UNCHANGED <<mnList, mnSrc, mnParams, nameVars, propVars, hookVars, preVars, wmVars>>

(***************************************************************************)
(* Specifications                                                          *)
(***************************************************************************)
\* name translation: an internal name of either type, to the wire and back
InitNames ==
    /\ nmStage = "internal"
    /\ nmType \in ModeTypes
    /\ nmName \in InternalNames
    /\ nmWire = ""
    /\ nmBack = nullopt
    /\ PropIdle /\ HookIdle /\ PreModeIdle /\ WriteModesIdle /\ ModeNoticeIdle

NextNames == ToWire \/ ToInternal

SpecNames == InitNames /\ [][NextNames]_vars

\* a PROP command from a local user on a channel in one of its states
InitProp ==
    /\ chan \in ChannelStates
    /\ src \in LocalUsers
    /\ parameters \in PropCommands
    /\ replies = <<>> /\ processed = <<>>
    /\ cmdResult = "PENDING"
    /\ NamesIdle /\ HookIdle /\ PreModeIdle /\ WriteModesIdle /\ ModeNoticeIdle

NextProp == HandleLocal

SpecProp == InitProp /\ [][NextProp]_vars

\* MODE events: built once, then delivered to recipients
InitHook == HookIdle /\ NamesIdle /\ PropIdle /\ PreModeIdle /\ WriteModesIdle /\ ModeNoticeIdle

NextHook == OnEventInit \/ OnPreEventSend

SpecHook == InitHook /\ [][NextHook]_vars

\* a mode change passing through OnPreMode
InitPreMode ==
    /\ preTarget \in PreModeTargets
    /\ preIn \in ChangeLists(PreModeChanges, MaxBatch)
    /\ preOut = <<>>
    /\ preDone = FALSE
    /\ NamesIdle /\ PropIdle /\ HookIdle /\ WriteModesIdle /\ ModeNoticeIdle

NextPreMode == OnPreMode

SpecPreMode == InitPreMode /\ [][NextPreMode]_vars

(***************************************************************************)
(* Properties: PROP command                                                *)
(***************************************************************************)
PropDone == cmdResult \in {"SUCCESS", "FAILURE"}

\* the property tokens of the command, after the channel name
PropTokensOf(params) == SubSeq(params, 2, Len(params))

IsChangeToken(tok) == tok # "" /\ (Head(tok) = "+" \/ Head(tok) = "-")
IsQueryToken(tok) == tok # "" /\ ~IsChangeToken(tok)

\* the part of a token that names the property, and the registered channel
\* mode it stands for (NULL when there is none)
TokenName(tok) ==
    LET body == IF IsChangeToken(tok) THEN SubstrFrom(tok, 2) ELSE tok
        eq == Find(body, "=")
    IN  IF eq = 0 THEN body ELSE SubSeq(body, 1, eq - 1)

TokenMode(tok) ==
    LET insp == ircv3_to_insp(MODETYPE_CHANNEL, TokenName(tok))
    IN  IF insp.has THEN FindMode(insp.value, MODETYPE_CHANNEL) ELSE NULL

\* unknown name, missing required value, unexpected value, '=' on a list
\* query, or a query for a mode that is not a list mode
TokenInvalid(tok) ==
    LET mh == TokenMode(tok)
        hasValue == Find(tok, "=") # 0
    IN  /\ tok # ""
        /\ IF IsChangeToken(tok)
           THEN \/ mh = NULL
                \/ NeedsParam(mh, Head(tok) = "+") # hasValue
           ELSE \/ hasValue
                \/ mh = NULL
                \/ ~IsListModeBase(mh)

\* a handled PROP command on the existing channel with property tokens
PropOnChannel == PropDone /\ parameters[1] = chan.name /\ Len(parameters) > 1

SomeTokenInvalid == \E i \in 2..Len(parameters) : TokenInvalid(parameters[i])

FailReplies == SelectSeq(replies, LAMBDA r : r.type = "FAIL")

\* C1: a PROP command on an existing channel in which at least one token is
\* invalid hands nothing to the mode-application subsystem: ProcessSingle is
\* not called, whatever valid '+'/'-' tokens precede or follow.
C1_InvalidTokenAppliesNothing ==
    (PropOnChannel /\ SomeTokenInvalid) => processed = <<>>

\* C1 witness: a valid '+' token was accepted before a later invalid one
\* and the command ended without a ProcessSingle call.
C1_Witness ==
    /\ PropOnChannel
    /\ Len(parameters) = 3
    /\ IsChangeToken(parameters[2]) /\ ~TokenInvalid(parameters[2])
    /\ TokenInvalid(parameters[3])
    /\ processed = <<>>
    /\ cmdResult = "FAILURE"

\* C2 as stated: a PROP command with at least one invalid token gets exactly
\* one FAIL reply, the one of the first failing token.
C2_ExactlyOneFail ==
    (PropOnChannel /\ SomeTokenInvalid) => Len(FailReplies) = 1

\* C3: when every token is valid, one batch is submitted and it holds one
\* ChangeRequest per non-empty '+'/'-' token, in token order, with the
\* token's polarity and mode; empty and list-query tokens add none.
C3_OneRequestPerChangeToken ==
    (PropOnChannel /\ ~SomeTokenInvalid) =>
        LET changeTokens == SelectSeq(PropTokensOf(parameters), IsChangeToken)
        IN  /\ Len(processed) = 1
            /\ Len(processed[1].modes) = Len(changeTokens)
            /\ \A n \in 1..Len(changeTokens) :
                /\ processed[1].modes[n].mh = TokenMode(changeTokens[n])
                /\ processed[1].modes[n].adding = (Head(changeTokens[n]) = "+")

\* C3 witness: a command of a list query and a '-' token, both valid, was
\* submitted as a batch of one request.
C3_Witness ==
    /\ PropOnChannel /\ ~SomeTokenInvalid
    /\ Len(parameters) = 3
    /\ IsQueryToken(parameters[2])
    /\ IsChangeToken(parameters[3]) /\ Head(parameters[3]) = "-"
    /\ Len(processed) = 1
    /\ Len(processed[1].modes) = 1

(***************************************************************************)
(* Properties: name translation                                            *)
(***************************************************************************)
ColumnUnique(table, col) ==
    \A i, j \in 1..Len(table) : i # j => table[i][col] # table[j][col]

\* C4: an internal name of the type's table comes back from the wire as
\* itself, and neither column of either table holds a duplicate.
C4_TableRoundTrip ==
    /\ (nmStage = "back" /\ nmName \in TableNames(nmType)) => nmBack = Some(nmName)
    /\ \A mt \in ModeTypes, col \in {1, 2} : ColumnUnique(TranslationTable(mt), col)

\* C4 witness: founder went to the wire as owner and came back as founder.
C4_Witness ==
    /\ nmStage = "back" /\ nmType = MODETYPE_CHANNEL
    /\ nmName = "founder" /\ nmWire = "owner" /\ nmBack = Some("founder")

\* C5 as stated: an internal name that is not in the type's table comes
\* back from the wire as itself through the vendor fallback.
C5_FallbackRoundTrip ==
    (nmStage = "back" /\ nmName \notin TableNames(nmType)) => nmBack = Some(nmName)

(***************************************************************************)
(* Properties: ModeHook                                                    *)
(***************************************************************************)
EventBuilt == ev # NoEvent

\* the event has legacy messages and every change has its handler
EventWellFormed ==
    /\ ev.messages # <<>>
    /\ \A n \in 1..Len(ev.changes) : ev.changes[n].mh # NULL

Polarity(change) == IF change.adding THEN "+" ELSE "-"
ValueSuffix(change) == IF change.param = "" THEN "" ELSE "=" \o change.param

\* msg is a PROP for this change of the event in flight: the event's source
\* and target, the polarity and value of the change and a name of its mode
BuiltFrom(msg, change) ==
    /\ msg.command = "PROP"
    /\ msg.source = ev.messages[1].source
    /\ msg.sourceuser = ev.messages[1].sourceuser
    /\ Len(msg.params) = 2
    /\ msg.params[1] = ev.messages[1].params[1]
    /\ \E name \in {change.mh.name, insp_to_ircv3(MODETYPE_CHANNEL, change.mh.name)} :
        msg.params[2] = Polarity(change) \o name \o ValueSuffix(change)

\* C6 as stated: for any event with k changes the build leaves exactly k
\* property messages, the i-th built from the i-th change.
C6_KMessagesForAnyEvent ==
    EventBuilt =>
        /\ Len(propmsgs) = Len(ev.changes)
        /\ \A n \in 1..Len(propmsgs) :
            ev.changes[n].mh # NULL /\ BuiltFrom(propmsgs[n], ev.changes[n])

\* C6 amended: for an event with a non-empty legacy message list whose k
\* changes all have a handler, the build leaves exactly k property messages,
\* the i-th built from the i-th change, all with the event's source and
\* target.
C6_KMessagesForWellFormedEvent ==
    (EventBuilt /\ EventWellFormed) =>
        /\ Len(propmsgs) = Len(ev.changes)
        /\ \A n \in 1..Len(propmsgs) : BuiltFrom(propmsgs[n], ev.changes[n])

\* C6 witness: two different changes were built into two messages in order.
C6_Witness ==
    /\ EventBuilt /\ EventWellFormed
    /\ Len(ev.changes) = 2 /\ ev.changes[1] # ev.changes[2]
    /\ Len(propmsgs) = 2
    /\ BuiltFrom(propmsgs[1], ev.changes[1])
    /\ BuiltFrom(propmsgs[2], ev.changes[2])

\* C7 as stated: every built property message carries the token
\* polarity ++ wire name of the changed mode [ "=" value ].
C7_TokenUsesWireName ==
    EventBuilt =>
        \A n \in 1..Len(propmsgs) :
            propmsgs[n].params[2] =
                Polarity(ev.changes[n])
                    \o insp_to_ircv3(MODETYPE_CHANNEL, ev.changes[n].mh.name)
                    \o ValueSuffix(ev.changes[n])

Served == recipient # NoRecipient

\* C8: a recipient without the capability keeps its message list as it
\* was: same messages, same order.
C8_NoCapListUntouched ==
    (Served /\ ~recipient.cap) => (~crashed /\ listAfter = listBefore)

\* C8 witness: PROPs were built, and a recipient without the capability was
\* served a list of legacy and other messages.
C8_Witness ==
    /\ Served /\ ~recipient.cap
    /\ propmsgs # <<>>
    /\ Len(listBefore) > Len(ev.messages) /\ ev.messages # <<>>
    /\ listAfter = listBefore

\* C9 as stated: a recipient with the capability ends with the k built
\* property messages in build order followed by what came after the first
\* N entries of its list.
C9_CapListSpliced ==
    (Served /\ recipient.cap) =>
        /\ ~crashed
        /\ listAfter = propmsgs \o SubSeq(listBefore, Len(ev.messages) + 1, Len(listBefore))

(***************************************************************************)
(* Properties: OnPreMode                                                   *)
(***************************************************************************)
\* C10 as stated: after OnPreMode over a channel ChangeList no request has
\* the namebase handler as its mode.
C10_NoPlaceholderLeft ==
    (preDone /\ preTarget # NULL) =>
        \A n \in 1..Len(preOut) : preOut[n].mh # dummyZ

(***************************************************************************)
(* Properties: PROP command, continued                                     *)
(***************************************************************************)
\* C11 as stated: when every token is valid the batch is submitted with
\* MODE_CHECKACCESS and the command succeeds exactly when the
\* mode-application subsystem reports success.
C11_ResultFollowsSubsystem ==
    (PropOnChannel /\ ~SomeTokenInvalid) =>
        /\ Len(processed) = 1
        /\ processed[1].flags = "MODE_CHECKACCESS"
        /\ (cmdResult = "SUCCESS") = processed[1].report

(***************************************************************************)
(* Properties: ModeHook, continued                                         *)
(***************************************************************************)
\* C12 as stated: an event with an empty legacy message list, or with a
\* change without a handler at any position, leaves the buffer empty and
\* every recipient with the list it had.
C12_AbortLeavesNothing ==
    (EventBuilt /\ ~EventWellFormed) =>
        /\ propmsgs = <<>>
        /\ Served => (~crashed /\ listAfter = listBefore)

\* one WriteModes call of OnUserConnect, over the mode map of its type
InitWriteModes ==
    /\ wmType \in ModeTypes
    /\ wmModes \in ModeMaps(wmType)
    /\ wmI = 1 /\ wmOut = <<>> /\ wmLogged = 0
    /\ wmPc = "loop"
    /\ NamesIdle /\ PropIdle /\ HookIdle /\ PreModeIdle /\ ModeNoticeIdle

NextWriteModes == WriteModesEnd \/ WriteModesSkip \/ WriteModesEmit

SpecWriteModes == InitWriteModes /\ [][NextWriteModes]_vars

(***************************************************************************)
(* Properties: PROP state dump and list queries                            *)
(***************************************************************************)
\* a PROP with the channel name alone has been answered
DumpDone == PropDone /\ parameters = <<chan.name>>

\* the parameters of the RPL_PROPLIST line of the dump (none: no line)
DumpParams ==
    IF Len(replies) = 2 THEN replies[1].params ELSE <<>>

\* the requester may not see secret parameters
Outsider == src.nick \notin chan.members /\ ~src.auspex

\* what the dump shows right after the wire name of a parameter mode
ShownAfter(wire) ==
    { DumpParams[k + 1] : k \in { j \in 1..(Len(DumpParams) - 1) : DumpParams[j] = wire } }

\* C14 as stated: in a full state dump every parameter mode set on the
\* channel shows its value, unless it is secret and the requester is neither
\* a member nor privileged: then the value appears nowhere in the dump and
\* the placeholder "<wire name>" is shown in its place.
C14_SecretRedactedWithWireName ==
    DumpDone =>
        \A i \in 1..Len(ChannelModes) :
            LET mh == ChannelModes[i]
                wire == insp_to_ircv3(MODETYPE_CHANNEL, mh.name)
            IN  (mh.name \in chan.set /\ IsParameterMode(mh)) =>
                    IF mh.secret /\ Outsider
                    THEN /\ ShownAfter(wire) = {"<" \o wire \o ">"}
                         /\ \A k \in 1..Len(DumpParams) : DumpParams[k] # chan.param[mh.name]
                    ELSE ShownAfter(wire) = {chan.param[mh.name]}

\* the index in parameters of the first invalid token (none: one past the end)
FirstInvalid ==
    IF SomeTokenInvalid
    THEN CHOOSE i \in 2..Len(parameters) :
            /\ TokenInvalid(parameters[i])
            /\ \A j \in 2..(i - 1) : ~TokenInvalid(parameters[j])
    ELSE Len(parameters) + 1

\* the entries stored on the channel under the list mode a token names
StoredEntries(tok) == chan.lists[TokenMode(tok).name]

\* n list-item replies in stored order and one end-of-list reply, echoing
\* the channel name and the token
ListAnswer(tok) ==
    [n \in 1..Len(StoredEntries(tok)) |->
        Numeric(963, <<chan.name, tok, StoredEntries(tok)[n].mask,
                       StoredEntries(tok)[n].setter, StoredEntries(tok)[n].time>>)]
    \o <<Numeric(962, <<chan.name, tok, "End of mode list">>)>>

\* the list answers owed to the tokens at positions i .. last
RECURSIVE ListAnswers(_, _)
ListAnswers(i, last) ==
    IF i > last THEN <<>>
    ELSE (IF IsQueryToken(parameters[i]) THEN ListAnswer(parameters[i]) ELSE <<>>)
         \o ListAnswers(i + 1, last)

\* C15: every valid list-query token reached by the command is answered
\* with one 963 reply per stored entry, in stored order, each echoing the
\* channel name and the token as sent, then exactly one 962 reply, also
\* when nothing is stored: the replies start with these answers in token
\* order, and a command of valid tokens gets nothing else.
C15_ListQueryAnswer ==
    PropOnChannel =>
        LET owed == ListAnswers(2, FirstInvalid - 1)
        IN  /\ Len(replies) >= Len(owed)
            /\ SubSeq(replies, 1, Len(owed)) = owed
            /\ ~SomeTokenInvalid => replies = owed

\* C15 witness: "ban" with two stored entries then "banex" with one were
\* both answered: 963, 963, 962, 963, 962.
C15_Witness ==
    /\ PropOnChannel
    /\ parameters = <<"#chan", "ban", "banex">>
    /\ Len(chan.lists.ban) = 2
    /\ [n \in 1..Len(replies) |-> replies[n].numeric] = <<963, 963, 962, 963, 962>>
    /\ replies[4].params[2] = "banex"

\* the reply written for the first invalid token: the one before the
\* closing reply of a failed command
TokenFail == replies[Len(replies) - 1]

HasValue(tok) == Find(tok, "=") # 0
TextAfterEq(tok) == SubstrFrom(tok, Find(tok, "=") + 1)

\* C16: building a ChangeRequest from a '+'/'-' token split at the first
\* '=': an unresolvable name fails UNKNOWN_MODE whether or not a value is
\* given; a resolved mode that needs a parameter for the polarity and has no
\* '=' fails MISSING_VALUE; one that needs none and has '=' fails
\* UNEXPECTED_VALUE; otherwise the request carries the text after the first
\* '='. So in a submitted batch a request comes from a token with '='
\* exactly when its mode needs a parameter for its polarity.
C16_ChangeRequestBuilding ==
    PropOnChannel =>
        /\ (SomeTokenInvalid /\ IsChangeToken(parameters[FirstInvalid])) =>
              LET tok == parameters[FirstInvalid]
                  mh == TokenMode(tok)
                  needs == NeedsParam(mh, Head(tok) = "+")
              IN  /\ TokenFail.type = "FAIL"
                  /\ TokenFail.code =
                        IF mh = NULL THEN "UNKNOWN_MODE"
                        ELSE IF needs /\ ~HasValue(tok) THEN "MISSING_VALUE"
                        ELSE IF ~needs /\ HasValue(tok) THEN "UNEXPECTED_VALUE"
                        ELSE "none"
        /\ ~SomeTokenInvalid =>
              LET changeTokens == SelectSeq(PropTokensOf(parameters), IsChangeToken)
              IN  /\ Len(processed) = 1
                  /\ Len(processed[1].modes) = Len(changeTokens)
                  /\ \A n \in 1..Len(changeTokens) :
                        LET tok == changeTokens[n]
                            request == processed[1].modes[n]
                        IN  /\ HasValue(tok) = NeedsParam(request.mh, request.adding)
                            /\ request.param = IF HasValue(tok) THEN TextAfterEq(tok) ELSE ""

\* C16 witness: "+key=a=b" was accepted with the value "a=b", the text
\* after the first '='.
C16_Witness ==
    /\ PropOnChannel
    /\ parameters = <<"#chan", "+key=a=b">>
    /\ Len(processed) = 1
    /\ processed[1].modes = <<Change(FindMode("key", MODETYPE_CHANNEL), TRUE, "a=b")>>

\* the replies that answer a list query for tok
StreamedFor(tok) ==
    SelectSeq(replies, LAMBDA r : r.type = "NUMERIC" /\ r.numeric \in {962, 963}
                                  /\ r.params[2] = tok)

\* C17: a list-query token is rejected with INVALID_SYNTAX if it contains
\* '=', whether or not its name resolves; otherwise with UNKNOWN_MODE if the
\* name resolves to no registered mode; otherwise with NOT_LISTMODE if the
\* mode is not a list mode; a rejected token streams nothing. Only a token
\* that passes all three is answered with its list, and the token after it
\* is then processed.
C17_ListQueryErrorOrder ==
    PropOnChannel =>
        /\ (SomeTokenInvalid /\ IsQueryToken(parameters[FirstInvalid])) =>
              LET tok == parameters[FirstInvalid]
                  mh == TokenMode(tok)
              IN  /\ TokenFail.type = "FAIL"
                  /\ TokenFail.code =
                        IF HasValue(tok) THEN "INVALID_SYNTAX"
                        ELSE IF mh = NULL THEN "UNKNOWN_MODE"
                        ELSE IF ~IsListModeBase(mh) THEN "NOT_LISTMODE"
                        ELSE "none"
                  /\ StreamedFor(tok) = <<>>
        /\ \A i \in 2..Len(parameters) :
              (i < FirstInvalid /\ IsQueryToken(parameters[i])) =>
                  LET tok == parameters[i]
                  IN  /\ ~HasValue(tok) /\ TokenMode(tok) # NULL
                      /\ TokenMode(tok).list
                      /\ StreamedFor(tok) # <<>>
                      /\ i < Len(parameters) =>
                            \/ TokenInvalid(parameters[i + 1]) /\ TokenFail.type = "FAIL"
                            \/ IsQueryToken(parameters[i + 1])
                                   /\ StreamedFor(parameters[i + 1]) # <<>>
                            \/ IsChangeToken(parameters[i + 1]) \/ parameters[i + 1] = ""

\* C17 witness: "nosuch=x", which has '=' and names no mode, was rejected
\* with INVALID_SYNTAX after the valid query "ban" had been answered.
C17_Witness ==
    /\ PropOnChannel
    /\ parameters = <<"#chan", "ban", "nosuch=x">>
    /\ TokenFail = Fail("INVALID_SYNTAX", "PROP list request should not have a value")
    /\ StreamedFor("ban") # <<>>

\* C18: tokens are consumed left to right and processing stops at the first
\* failing token: the command is answered, and the batch handled, exactly
\* as the command cut after that token would be, so no list answer and no
\* error of a later token is written.
C18_StopsAtFirstFailure ==
    (PropOnChannel /\ SomeTokenInvalid) =>
        LET cut == HandleLocalResult(src, SubSeq(parameters, 1, FirstInvalid), chan, TRUE)
        IN  /\ replies = cut.replies
            /\ processed = <<>>
            /\ Len(replies) = Len(ListAnswers(2, FirstInvalid - 1)) + 2
            /\ \A i \in (FirstInvalid + 1)..Len(parameters) :
                  parameters[i] \notin { parameters[j] : j \in 2..FirstInvalid } =>
                      StreamedFor(parameters[i]) = <<>>

\* C18 witness: "nosuch" failed first and the valid query "ban" after it,
\* on a channel with ban entries, got no answer.
C18_Witness ==
    /\ PropOnChannel
    /\ parameters = <<"#chan", "nosuch", "ban">>
    /\ Len(chan.lists.ban) = 2
    /\ Len(replies) = 2
    /\ replies[1].code = "UNKNOWN_MODE"

(***************************************************************************)
(* Properties: OnPreMode, frame and parameter check                        *)
(***************************************************************************)
\* the ways of matching the requests left in preOut, in order, with the
\* requests of preIn they come from
OrderKeepingMaps ==
    { f \in [1..Len(preOut) -> 1..Len(preIn)] :
        \A j, k \in 1..Len(preOut) : j < k => f[j] < f[k] }

\* C19: OnPreMode leaves every request that is not a placeholder as it was
\* (mode, polarity and value), removes none of them and keeps the order of
\* the requests that survive; the batch of a user target (no channel) is
\* left as it was.
C19_RewriteFrame ==
    preDone =>
        /\ preTarget = NULL => preOut = preIn
        /\ preTarget # NULL =>
              \E f \in OrderKeepingMaps :
                  /\ \A k \in 1..Len(preOut) :
                        IF preIn[f[k]].mh = dummyZ
                        THEN preOut[k].adding = preIn[f[k]].adding
                        ELSE preOut[k] = preIn[f[k]]
                  /\ \A n \in 1..Len(preIn) :
                        preIn[n].mh # dummyZ => \E k \in 1..Len(preOut) : f[k] = n

\* C19 witness: of a channel batch of a placeholder that names no mode and
\* a real request, only the real request is left, unchanged.
C19_Witness ==
    /\ preDone /\ preTarget # NULL
    /\ Len(preIn) = 2
    /\ preIn[1] = Change(dummyZ, TRUE, "nosuch=1")
    /\ preIn[2] = Change(FindMode("ban", MODETYPE_CHANNEL), TRUE, "a=b")
    /\ preOut = <<preIn[2]>>

\* C20 as stated: for a placeholder request with payload name[=value] and
\* polarity p the rewrite decides as PROP does for the token of the same
\* name, '=' and value: it leaves the request that ChangeMode would build
\* when ChangeMode would accept the token, and drops the placeholder when
\* ChangeMode would reject it or the name resolves to no mode.
C20_RewriteChecksAsProp ==
    (preDone /\ preTarget # NULL /\ Len(preIn) = 1 /\ preIn[1].mh = dummyZ) =>
        LET payload == preIn[1].param
            eq == Find(payload, "=")
            name == IF eq = 0 THEN payload ELSE SubSeq(payload, 1, eq - 1)
            rest == IF eq = 0 THEN "" ELSE SubstrFrom(payload, eq)
            d == FindMode(name, MODETYPE_CHANNEL)
            built == ChangeMode(MODETYPE_CHANNEL,
                                insp_to_ircv3(MODETYPE_CHANNEL, name) \o rest,
                                preIn[1].adding, <<>>)
        IN  IF d = NULL THEN preOut = <<>>
            ELSE IF built.ok THEN preOut = built.modes
            ELSE preOut = <<>>

(***************************************************************************)
(* Properties: the buffer across events                                    *)
(***************************************************************************)
\* C21 as stated: the buffer is cleared at the start of every build, also
\* of one that aborts: after a build the buffer holds only messages built
\* from the changes of the event in flight, position by position, and every
\* PROP message a recipient is handed during the event was built from a
\* change of that event, never from an earlier one.
C21_NoMessageFromEarlierEvent ==
    /\ EventBuilt =>
          /\ Len(propmsgs) <= Len(ev.changes)
          /\ \A n \in 1..Len(propmsgs) :
                ev.changes[n].mh # NULL /\ BuiltFrom(propmsgs[n], ev.changes[n])
    /\ (Served /\ ~crashed) =>
          \A m \in 1..Len(listAfter) :
              listAfter[m].command = "PROP" =>
                  \E n \in 1..Len(ev.changes) :
                      ev.changes[n].mh # NULL /\ BuiltFrom(listAfter[m], ev.changes[n])

\* C22 as stated: whenever a recipient with the capability is served, the
\* buffer holds at least as many property messages as the event has legacy
\* messages, so that the first-N range lies inside the buffer, also after a
\* build that stopped early on a change without a handler.
C22_BufferCoversLegacy ==
    (Served /\ recipient.cap) => Len(propmsgs) >= Len(ev.messages)

(***************************************************************************)
(* Properties: WriteModes                                                  *)
(***************************************************************************)
\* C13 as stated: the dump terminates: a mode that is skipped (a parameter
\* needed only when unsetting, or a user mode classified as list, two-way
\* parameter or prefix) is passed over, so each trip through the loop that
\* logs the error leaves the iterator on a later mode.
C13_SkipAdvances ==
    [][wmLogged' # wmLogged => wmI' > wmI]_vars

\* one MODENOTICE command, from an operator who may or may not be local
InitModeNotice ==
    /\ mnList \in { LocalList(m) : m \in LocalLists }
    /\ mnSrc \in {"alice", "oper"}
    /\ mnParams \in { <<l, t>> : l \in LetterStrings(MaxLetters), t \in {"hello", "a b"} }
    /\ mnNotices = <<>>
    /\ mnResult = "PENDING"
    /\ NamesIdle /\ PropIdle /\ HookIdle /\ PreModeIdle /\ WriteModesIdle

NextModeNotice == ModeNoticeHandle

SpecModeNotice == InitModeNotice /\ [][NextModeNotice]_vars

(***************************************************************************)
(* Properties: MODENOTICE                                                  *)
(***************************************************************************)
\* the notices written to the user at position n of the local list
NoticesTo(n) == SelectSeq(mnNotices, LAMBDA x : x.to = mnList[n].nick)

\* every letter of the command is a mode the user has set
HasEveryLetter(user) ==
    \A k \in 1..Len(mnParams[1]) : CharAt(mnParams[1], k) \in user.modes

\* C23: MODENOTICE with letters L and a message writes the notice exactly
\* once to each local user that has every letter of L set and never to a
\* local user that lacks one of them (with L empty, to every local user),
\* and returns SUCCESS.
C23_NoticeToUsersWithAllModes ==
    (mnResult \notin {"NONE", "PENDING"}) =>
        /\ mnResult = "SUCCESS"
        /\ \A n \in 1..Len(mnList) :
              IF HasEveryLetter(mnList[n])
              THEN NoticesTo(n) = <<[to |-> mnList[n].nick,
                                     text |-> "*** From " \o mnSrc \o ": " \o mnParams[2]]>>
              ELSE NoticesTo(n) = <<>>
        /\ \A k \in 1..Len(mnNotices) :
              \E n \in 1..Len(mnList) : mnNotices[k].to = mnList[n].nick

\* C23 witness: of two local users the one with both letters of "is" set
\* got the notice and the one with only "i" did not.
C23_Witness ==
    /\ mnResult = "SUCCESS"
    /\ mnParams[1] = "is"
    /\ Len(mnList) = 2
    /\ mnList[1].modes = {"i"} /\ mnList[2].modes = {"i", "s"}
    /\ Len(mnNotices) = 1 /\ mnNotices[1].to = mnList[2].nick

====
